---- MODULE Spec2Model ----
(***************************************************************************)
(* A model of the moltworker container glue:                               *)
(*   - the outbound request interceptor (fetch-cost-interceptor.cjs),      *)
(*   - the startup script's restore / config / launch sequence             *)
(*     (start-openclaw.sh),                                                *)
(*   - the Worker-side restore coordinator (src/gateway/restore.ts).       *)
(* Each of the three is a specification of its own over the same state.    *)
(***************************************************************************)
EXTENDS Integers, Sequences, FiniteSets, TLC

VARIABLES
    CF_AIG_AUTHORIZATION,   \* interceptor: relay token captured at load ("" = unset)
    AI_GATEWAY_BASE_URL,    \* interceptor: relay base URL captured at load
    req,                    \* interceptor: the (input, init) of the current call
    out,                    \* interceptor: what the current call did
    prev,                   \* interceptor: what the call before it did
    pass,                   \* interceptor: number of calls made so far
    mirror,                 \* storage: the R2 mount, [marker, files]
    local,                  \* storage: the container's disk, [marker, files]
    bootPc,                 \* startup script: the block it is at
    decisions,              \* startup script: the should_restore_from_r2 calls of this boot
    bootLog,                \* startup script: <<entry, mirror file>> copied in this boot
    bootFailed,             \* startup script: the copy commands that failed in this boot
    rPc,                    \* restoreFromR2: the await it is at
    rResult,                \* restoreFromR2: the RestoreResult returned
    rAttempted,             \* restoreFromR2: the commands of restoreCmd that were run
    rFailed,                \* restoreFromR2: the commands of restoreCmd that failed
    rThrown,                \* restoreFromR2: the step whose await threw, "" if none
    rLog,                   \* restoreFromR2: <<entry, mirror file>> copied
    bCycle,                 \* backup job: the cycle in progress (its marker time), 0 if none
    bDone,                  \* backup job: the entries the cycle in progress has written
    env,                    \* config update: the channel variables of the environment
    configRead,             \* config update: the channel sections of the config file read
    configWritten,          \* config update: the channel sections written back
    policiesBefore          \* config update: the DM policies the previous boot wrote

fetchVars == <<CF_AIG_AUTHORIZATION, AI_GATEWAY_BASE_URL, req, out, prev, pass>>
storeVars == <<mirror, local>>
bootVars == <<bootPc, decisions, bootLog, bootFailed>>
restoreVars == <<rPc, rResult, rAttempted, rFailed, rThrown, rLog>>

backupVars == <<bCycle, bDone>>

configVars == <<env, configRead, configWritten, policiesBefore>>

vars == <<fetchVars, storeVars, bootVars, restoreVars, backupVars, configVars>>

\* The number of times patchedFetch is applied in a row (a call, then
\* re-invocations on what it forwarded).
MaxPass == 2

(***************************************************************************)
(* URLs.  A URL string is kept by its parts, so that the substring tests   *)
(* of the interceptor and the parse of `new URL` are both computed:        *)
(*   [https://] host  pre...  /v1/acc/<gw>/<prov>  ver  /models/m<op>  q   *)
(* pre holds the base paths a rewrite has put in front of the path.        *)
(***************************************************************************)
GoogleHost == "generativelanguage.googleapis.com"
RelayHost == "gateway.ai.cloudflare.com"
OtherHost == "api.example.com"
Hosts == {GoogleHost, RelayHost, OtherHost}

NoRoute == [gw |-> "", prov |-> ""]
RelayRoutes == [gw : {"gw", "custom-gw"},
                prov : {"google-ai-studio", "custom-fireworks", "openai"}]
Vers == {"", "/v1beta"}
Ops == {":generateContent", ":embedContent", ":batchEmbedContents"}
Queries == {"", "?via=/google-ai-studio"}

\* The URLs callers pass: the provider's native API, the relay under an
\* account/gateway/provider route, and an unrelated host.
AbsUrls ==
    {[abs |-> TRUE, host |-> h, pre |-> <<>>, route |-> r, ver |-> v, op |-> o, q |-> q] :
        h \in {GoogleHost, OtherHost}, r \in {NoRoute}, v \in Vers, o \in Ops, q \in Queries}
    \cup
    {[abs |-> TRUE, host |-> RelayHost, pre |-> <<>>, route |-> r, ver |-> v, op |-> o, q |-> q] :
        r \in RelayRoutes, v \in Vers, o \in Ops, q \in Queries}

\* The same without a scheme: strings `new URL` rejects.
RelUrls == {[u EXCEPT !.abs = FALSE] : u \in AbsUrls}

\* The fixed substrings a path prefix /v1/acc/<gw>/<prov> contains.
RouteTokens(r) ==
    (IF r.prov = "google-ai-studio" THEN {"/google-ai-studio"} ELSE {})
    \cup (IF r.prov = "custom-fireworks" \/ r.gw = "custom-gw" THEN {"/custom-"} ELSE {})

UrlTokens(u) ==
    {u.host}
    \cup UNION {RouteTokens(u.pre[i]) : i \in DOMAIN u.pre}
    \cup RouteTokens(u.route)
    \cup {u.op}
    \cup (IF u.q = "?via=/google-ai-studio" THEN {"/google-ai-studio"} ELSE {})

\* String.prototype.includes on a URL string, for the patterns the code uses.
Includes(u, pat) == pat \in UrlTokens(u)

\* new URL(url) throws on a string that is no absolute URL.
URLParses(u) == u.abs

(***************************************************************************)
(* Headers.  A header list is a set of <<name, value>>; a value is the     *)
(* sequence of its comma-joined parts.  A Headers object holds lower-case  *)
(* names; a plain object holds the names as the caller wrote them.         *)
(***************************************************************************)
RawNames == {"Authorization", "x-goog-api-key", "cf-aig-authorization", "Content-Type"}

Lower(n) ==
    CASE n = "Authorization" -> "authorization"
      [] n = "Content-Type" -> "content-type"
      [] OTHER -> n

RawValue(n) ==
    CASE n = "Authorization" -> <<"Bearer sk-caller">>
      [] n = "x-goog-api-key" -> <<"gemini-key">>
      [] n = "cf-aig-authorization" -> <<"caller-tok">>
      [] OTHER -> <<"application/json">>

\* A plain headers object with the given names.
RawHeaders(names) == {<<n, RawValue(n)>> : n \in names}

\* new Headers(x) of a plain object or a Headers object.
ToHeaders(h) == {<<Lower(p[1]), p[2]>> : p \in h}

Has(h, n) == \E p \in h : p[1] = Lower(n)
Delete(h, n) == {p \in h : p[1] # Lower(n)}
Set(h, n, v) == Delete(h, n) \cup {<<Lower(n), <<v>>>>}
Get(h, n) == IF Has(h, n) THEN (CHOOSE p \in h : p[1] = Lower(n))[2] ELSE <<>>

(***************************************************************************)
(* The arguments of fetch.                                                 *)
(***************************************************************************)
NoInit == [present |-> FALSE, hkind |-> "none", hdrs |-> {}, body |-> ""]

\* init: absent, without headers, with a plain headers object, or with a
\* headers value `new Headers` rejects.
Inits ==
    {NoInit}
    \cup {[present |-> TRUE, hkind |-> "none", hdrs |-> {}, body |-> "body"]}
    \cup {[present |-> TRUE, hkind |-> "invalid", hdrs |-> {}, body |-> "body"]}
    \cup {[present |-> TRUE, hkind |-> "object", hdrs |-> RawHeaders(ns), body |-> "body"] :
            ns \in SUBSET RawNames}

DummyUrl == [abs |-> FALSE, host |-> "", pre |-> <<>>, route |-> NoRoute,
             ver |-> "", op |-> "", q |-> ""]
NullInput == [kind |-> "null", url |-> DummyUrl, hdrs |-> {}, body |-> ""]

\* input: a string, a URL object, a Request object carrying its own headers
\* and body, or null/undefined.
Inputs ==
    {[kind |-> "string", url |-> u, hdrs |-> {}, body |-> ""] : u \in AbsUrls \cup RelUrls}
    \cup {[kind |-> "URL", url |-> u, hdrs |-> {}, body |-> ""] : u \in AbsUrls}
    \cup {[kind |-> "Request", url |-> u,
           hdrs |-> ToHeaders(RawHeaders(ns \cup {"Content-Type"})), body |-> "reqbody"] :
            u \in AbsUrls, ns \in SUBSET {"Authorization", "x-goog-api-key"}}
    \cup {NullInput}

\* The outcome of one patchedFetch invocation: calls counts the calls of
\* originalFetch it made, returned is the index of the call whose result it
\* returned (0: none). Every return statement of patchedFetch is
\* "return originalFetch(...)"; an exception leaves before any call.
NoOut ==
    [status |-> "none", via |-> "", input |-> NullInput, init |-> NoInit,
     calls |-> 0, returned |-> 0]
Threw(input, init) ==
    [status |-> "threw", via |-> "", input |-> input, init |-> init,
     calls |-> 0, returned |-> 0]
\* A path that calls originalFetch for the relay and again for the provider.
FetchedTwice(via, input, init) ==
    [status |-> "fetched", via |-> via, input |-> input, init |-> init,
     calls |-> 2, returned |-> 2]
Fetched(via, input, init) ==
    [status |-> "fetched", via |-> via, input |-> input, init |-> init,
     calls |-> 1, returned |-> 1]

(***************************************************************************)
(* The interceptor's configuration, read once when the module is loaded.   *)
(***************************************************************************)
NoBase == [set |-> FALSE, host |-> "", route |-> NoRoute, slash |-> FALSE]

\* AI_GATEWAY_BASE_URL: unset, the relay's google-ai-studio route (with and
\* without a trailing slash), another relay route, a route on another host.
BaseUrls ==
    {NoBase}
    \cup {[set |-> TRUE, host |-> RelayHost,
           route |-> [gw |-> "gw", prov |-> "google-ai-studio"], slash |-> s] : s \in BOOLEAN}
    \cup {[set |-> TRUE, host |-> RelayHost,
           route |-> [gw |-> "gw", prov |-> "openai"], slash |-> FALSE]}
    \cup {[set |-> TRUE, host |-> "aig.example.com",
           route |-> [gw |-> "gw", prov |-> "google-ai-studio"], slash |-> FALSE]}

Tokens == {"", "cfg-tok"}

(***************************************************************************)
(* patchedFetch, step by step.                                             *)
(***************************************************************************)
isNativeGoogleRequest(u) == Includes(u, GoogleHost)

isEmbeddingRequest(u) ==
    Includes(u, ":embedContent") \/ Includes(u, ":batchEmbedContents")

\* AI_GATEWAY_BASE_URL && AI_GATEWAY_BASE_URL.includes('/google-ai-studio')
RewriteEnabled ==
    AI_GATEWAY_BASE_URL.set /\ "/google-ai-studio" \in RouteTokens(AI_GATEWAY_BASE_URL.route)

\* AI_GATEWAY_BASE_URL.replace(/\/+$/, '') as a path prefix
gatewayBaseUrl ==
    [gw |-> AI_GATEWAY_BASE_URL.route.gw, prov |-> AI_GATEWAY_BASE_URL.route.prov,
     slash |-> FALSE]

\* newUrl = gatewayBaseUrl + pathname + search
RewriteToGateway(u) ==
    [u EXCEPT !.abs = TRUE, !.host = AI_GATEWAY_BASE_URL.host,
              !.pre = <<gatewayBaseUrl>> \o u.pre]

isAIGatewayRequest(u) == Includes(u, RelayHost)
isGoogleAIStudio(u) == Includes(u, "/google-ai-studio")
isCustomProvider(u) == Includes(u, "/custom-")

\* A BYOK test that takes every relay request.
needsBYOKAlways(u) == TRUE

\* const needsBYOK = isGoogleAIStudio || isCustomProvider
needsBYOK(u) == isGoogleAIStudio(u) \/ isCustomProvider(u)

\* fullPath.indexOf('/google-ai-studio'): the path segment holding the first
\* occurrence (pre segments first, then the route), -1 when the pathname
\* holds none.
googleAiStudioIndex(u) ==
    LET inPre == {i \in DOMAIN u.pre : u.pre[i].prov = "google-ai-studio"}
    IN  IF inPre # {} THEN CHOOSE i \in inPre : \A j \in inPre : i <= j
        ELSE IF u.route.prov = "google-ai-studio" THEN Len(u.pre) + 1
        ELSE -1

\* 'https://generativelanguage.googleapis.com' + pathAfterGateway + search,
\* with /v1beta put in front of a path that starts with neither /v1beta nor /v1/.
directGoogleUrl(u) ==
    LET i == googleAiStudioIndex(u)
        restPre == IF i <= Len(u.pre) THEN SubSeq(u.pre, i + 1, Len(u.pre)) ELSE <<>>
        restRoute == IF i <= Len(u.pre) THEN u.route ELSE NoRoute
        bare == restPre = <<>> /\ restRoute = NoRoute /\ u.ver = ""
    IN  [abs |-> TRUE, host |-> GoogleHost, pre |-> restPre, route |-> restRoute,
         ver |-> IF bare THEN "/v1beta" ELSE u.ver, op |-> u.op, q |-> u.q]

\* A strip that forgets the Authorization header.
StripGoogKeyOnly(h) == Delete(h, "x-goog-api-key")

\* headers.delete('Authorization'); headers.delete('x-goog-api-key')
StripCredentials(h) == Delete(Delete(h, "Authorization"), "x-goog-api-key")

\* An injection that appends the token to the value already there, as
\* headers.append would.
InjectRelayAuthAppend(h) ==
    Delete(h, "cf-aig-authorization")
        \cup {<<"cf-aig-authorization",
                 Get(h, "cf-aig-authorization") \o <<CF_AIG_AUTHORIZATION>>>>}

\* if (!headers.has('cf-aig-authorization')) headers.set(..., CF_AIG_AUTHORIZATION)
InjectRelayAuth(h) ==
    IF ~Has(h, "cf-aig-authorization")
    THEN Set(h, "cf-aig-authorization", CF_AIG_AUTHORIZATION)
    ELSE h

\* The header block under `if (CF_AIG_AUTHORIZATION)`.
BYOKHeaders(h) ==
    IF CF_AIG_AUTHORIZATION # "" THEN InjectRelayAuth(StripCredentials(h)) ELSE h

\* patchedInit = { ...init, headers }
patchedInit(init, headers) ==
    [present |-> TRUE, hkind |-> "Headers", hdrs |-> headers, body |-> init.body]

\* The part of patchedFetch after the URL rewrite: the relay embedding
\* redirect, the BYOK header step, the pass-through.
HeaderManagement(url, input, init, embedding) ==
    LET isGatewayEmbeddingRequest ==
            isAIGatewayRequest(url) /\ isGoogleAIStudio(url) /\ embedding
    IN  IF isGatewayEmbeddingRequest /\ ~URLParses(url)
        THEN Threw(input, init)
        ELSE IF isGatewayEmbeddingRequest /\ googleAiStudioIndex(url) # -1
        THEN Fetched("relay-embed", [input EXCEPT !.url = directGoogleUrl(url)], init)
        ELSE IF isAIGatewayRequest(url) /\ needsBYOK(url)
        THEN IF init.hkind = "invalid"
             THEN Threw(input, init)
             ELSE Fetched("byok", input, patchedInit(init, BYOKHeaders(ToHeaders(init.hdrs))))
        ELSE Fetched("pass", input, init)

\* A patchedFetch that matches the header rules on the URL it was called
\* with and rewrites the URL afterwards.
patchedFetchHeadersFirst(input, init) ==
    IF input.kind = "null"
    THEN Threw(input, init)
    ELSE LET url == input.url
             native == isNativeGoogleRequest(url)
             embedding == isEmbeddingRequest(url)
             rewrite == native /\ RewriteEnabled
             matched == HeaderManagement(url, input, init, embedding)
         IN  IF embedding /\ native
             THEN Fetched("native-embed", input, init)
             ELSE IF rewrite /\ ~URLParses(url)
             THEN Threw(input, init)
             ELSE IF rewrite /\ matched.status = "fetched"
             THEN [matched EXCEPT !.input.url = RewriteToGateway(url)]
             ELSE matched

\* patchedFetch(input, init): what reaches originalFetch, or the exception.
patchedFetch(input, init) ==
    IF input.kind = "null"
    THEN Threw(input, init)
    ELSE LET url == input.url
             native == isNativeGoogleRequest(url)
             embedding == isEmbeddingRequest(url)
             rewrite == native /\ RewriteEnabled
         IN  IF embedding /\ native
             THEN Fetched("native-embed", input, init)
             ELSE IF rewrite /\ ~URLParses(url)
             THEN Threw(input, init)
             ELSE IF rewrite
             THEN HeaderManagement(RewriteToGateway(url),
                                   [input EXCEPT !.url = RewriteToGateway(url)],
                                   init, embedding)
             ELSE HeaderManagement(url, input, init, embedding)

(***************************************************************************)
(* The request originalFetch(input, init) sends: init's headers and body   *)
(* replace those a Request object carries, when init has them.             *)
(***************************************************************************)
SentUrl(input) == input.url

SentHeaders(input, init) ==
    IF init.present /\ init.hkind # "none" THEN ToHeaders(init.hdrs)
    ELSE IF input.kind = "Request" THEN input.hdrs
    ELSE {}

\* An init without a body member ("") leaves the body of a Request object.
SentBody(input, init) ==
    IF init.present /\ init.body # "" THEN init.body ELSE input.body

(***************************************************************************)
(* Interceptor: state machine.                                             *)
(***************************************************************************)
\* A caller calls fetch(input, init).
Call ==
    /\ pass = 0
    /\ \E input \in Inputs, init \in Inits :
        /\ req' = [input |-> input, init |-> init]
        /\ out' = patchedFetch(input, init)
    /\ prev' = out
    /\ pass' = 1
    /\ UNCHANGED <<CF_AIG_AUTHORIZATION, AI_GATEWAY_BASE_URL>>

\* patchedFetch is applied again to the (URL, headers, body) it forwarded.
Reinvoke ==
    /\ pass >= 1
    /\ pass < MaxPass
    /\ out.status = "fetched"
    /\ out.init.hkind # "invalid"
    /\ LET input == [kind |-> "string", url |-> SentUrl(out.input), hdrs |-> {}, body |-> ""]
           init == [present |-> TRUE, hkind |-> "Headers",
                    hdrs |-> SentHeaders(out.input, out.init),
                    body |-> SentBody(out.input, out.init)]
       IN  /\ req' = [input |-> input, init |-> init]
           /\ out' = patchedFetch(input, init)
    /\ prev' = out
    /\ pass' = pass + 1
    /\ UNCHANGED <<CF_AIG_AUTHORIZATION, AI_GATEWAY_BASE_URL>>

FetchNext ==
    \/ Call /\ UNCHANGED <<storeVars, bootVars, restoreVars, backupVars, configVars>>
    \/ Reinvoke /\ UNCHANGED <<storeVars, bootVars, restoreVars, backupVars, configVars>>

(***************************************************************************)
(* Storage.  A sync marker is the content of a .last-sync file: missing,   *)
(* text that is no date, or a timestamp written as wall-clock time plus    *)
(* UTC offset.  A file is kept by the version of its content, 0 = absent.  *)
(***************************************************************************)
\* The largest wall-clock reading a marker holds.
MaxWall == 3

NoMarker == [kind |-> "none", wall |-> 0, off |-> 0]
BadMarker == [kind |-> "bad", wall |-> 0, off |-> 0]
Timestamps == [kind : {"ts"}, wall : 2..MaxWall, off : {0, 1}]
Markers == {NoMarker, BadMarker} \cup Timestamps
NewestMarker == [kind |-> "ts", wall |-> MaxWall, off |-> 0]

\* date -d "$TIME" +%s 2>/dev/null || echo "0"
Epoch(m) == IF m.kind = "ts" THEN m.wall - m.off ELSE 0

\* A check that takes any text the marker file holds.
MatchesAnyText(m) == m.kind # "none"

\* lastSync.match(/^\d{4}-\d{2}-\d{2}/) on the trimmed marker text
MatchesDatePrefix(m) == m.kind = "ts"

ConfigFile == "clawdbot/clawdbot.json"
LegacyConfigFile == "clawdbot.json"
SkillFile == "skills/skill.md"
WorkspaceFiles ==
    {"workspace/SOUL.md", "workspace/notes.txt", "workspace/archive.md/old.md",
     "workspace/memory/notes.md", "workspace/tov/voice.md", "workspace/assets/avatar.png"}
MirrorFiles == {ConfigFile, LegacyConfigFile, SkillFile} \cup WorkspaceFiles

\* Where a restore puts a mirror file.
Dest(f) ==
    CASE f = ConfigFile -> "/root/.clawdbot/clawdbot.json"
      [] f = LegacyConfigFile -> "/root/.clawdbot/clawdbot.json"
      [] f = SkillFile -> "/root/clawd/skills/skill.md"
      [] f = "workspace/SOUL.md" -> "/root/clawd/SOUL.md"
      [] f = "workspace/notes.txt" -> "/root/clawd/notes.txt"
      [] f = "workspace/archive.md/old.md" -> "/root/clawd/archive.md/old.md"
      [] f = "workspace/memory/notes.md" -> "/root/clawd/memory/notes.md"
      [] f = "workspace/tov/voice.md" -> "/root/clawd/tov/voice.md"
      [] OTHER -> "/root/clawd/assets/avatar.png"
LocalFiles == {Dest(f) : f \in MirrorFiles}

\* The entry of the workspace root a workspace file lies in or is.
TopEntry(f) ==
    CASE f = "workspace/SOUL.md" -> "SOUL.md"
      [] f = "workspace/notes.txt" -> "notes.txt"
      [] f = "workspace/archive.md/old.md" -> "archive.md"
      [] f = "workspace/memory/notes.md" -> "memory"
      [] f = "workspace/tov/voice.md" -> "tov"
      [] OTHER -> "assets"

\* A regular file directly in the workspace root (not inside a directory).
IsTopLevelFile(f) == f \in {"workspace/SOUL.md", "workspace/notes.txt"}

\* The shell pattern *.md on an entry name.
MatchesMd(name) == name \in {"SOUL.md", "archive.md"}

Present(fs, f) == fs[f] # 0
PresentFiles(fs) == {f \in DOMAIN fs : fs[f] # 0}

\* The content the mirror holds and the content local edits leave.
MirrorContent(present) == [f \in MirrorFiles |-> IF f \in present THEN 2 ELSE 0]
LocalContent(present, v) == [f \in LocalFiles |-> IF f \in present THEN v ELSE 0]

\* The workspace trees a backup may have left in the mirror.
WorkspaceMenu ==
    { {},
      {"workspace/SOUL.md"},
      {"workspace/SOUL.md", "workspace/notes.txt", "workspace/memory/notes.md"},
      {"workspace/archive.md/old.md", "workspace/memory/notes.md"},
      WorkspaceFiles }

MirrorMenu ==
    {c \cup l \cup s \cup w :
        c \in {{}, {ConfigFile}}, l \in {{}, {LegacyConfigFile}},
        s \in {{}, {SkillFile}}, w \in WorkspaceMenu}

\* A copy that keeps a local file newer than the mirror's (rsync --update).
CopyInIfNewer(localFiles, mirrorFiles, sel) ==
    [d \in LocalFiles |->
        IF \E f \in sel : Present(mirrorFiles, f) /\ Dest(f) = d
                          /\ mirrorFiles[f] >= localFiles[d]
        THEN mirrorFiles[CHOOSE f \in sel : Present(mirrorFiles, f) /\ Dest(f) = d]
        ELSE localFiles[d]]

\* Copy the mirror files `sel` that exist over their local destinations.
CopyIn(localFiles, mirrorFiles, sel) ==
    [d \in LocalFiles |->
        IF \E f \in sel : Present(mirrorFiles, f) /\ Dest(f) = d
        THEN mirrorFiles[CHOOSE f \in sel : Present(mirrorFiles, f) /\ Dest(f) = d]
        ELSE localFiles[d]]

\* The mirrors and the container disks a run starts from: any mirror, and a
\* disk that is new or holds an earlier state.
InitialMirrors == [marker : Markers, files : {MirrorContent(p) : p \in MirrorMenu}]
InitialLocals ==
    [marker : Markers, files : {LocalContent({}, 0), LocalContent(LocalFiles, 3)}]
EmptyMirror == [marker |-> NoMarker, files |-> MirrorContent({})]
NewLocal == [marker |-> NoMarker, files |-> LocalContent({}, 0)]

(***************************************************************************)
(* The startup script (start-openclaw.sh), block by block.  The script     *)
(* runs under `set -e`: a command that fails outside an `if` condition and *)
(* without `|| true` ends it.                                              *)
(***************************************************************************)
\* should_restore_from_r2: exit status 0 (restore) as TRUE.
should_restore_from_r2(r2, loc) ==
    IF r2.kind = "none" THEN FALSE
    ELSE IF loc.kind = "none" THEN TRUE
    ELSE Epoch(r2) > Epoch(loc)

Decision(group) ==
    [group |-> group, r2 |-> mirror.marker, loc |-> local.marker,
     restore |-> should_restore_from_r2(mirror.marker, local.marker)]

\* cp -a "$BACKUP_DIR/workspace/"*.md "$WORKSPACE_DIR/": every entry of the
\* workspace root the pattern matches, directories with all they hold.
PersonaGlob(mirrorFiles) ==
    {f \in WorkspaceFiles : Present(mirrorFiles, f) /\ MatchesMd(TopEntry(f))}

\* The workspace entries the script copies when the block runs:
\* <<entry, files>> for *.md, memory/, tov/ and assets/.
WorkspaceEntries(mirrorFiles) ==
    {<<"md", PersonaGlob(mirrorFiles)>>}
    \cup {<<e, {f \in WorkspaceFiles : Present(mirrorFiles, f) /\ TopEntry(f) = e}>> :
            e \in {d \in {"memory", "tov", "assets"} :
                    \E f \in WorkspaceFiles : Present(mirrorFiles, f) /\ TopEntry(f) = d}}

\* Lines 79-97: the script starts; it exits at once when a gateway runs.
BootStart ==
    /\ bootPc \in {"off", "running"}
    /\ bootPc' = IF bootPc = "running" THEN "exit0" ELSE "config"
    /\ UNCHANGED <<storeVars, decisions, bootLog, bootFailed>>

\* Lines 143-163: restore the config directory (new layout, else legacy).
\* A cp that fails is taken to have copied nothing.  The legacy cp -a of the
\* whole mirror root brings .last-sync with it (and the mirror's other
\* directories, into /root/.clawdbot, which nothing reads).
BootRestoreConfig ==
    /\ bootPc = "config"
    /\ LET src == IF Present(mirror.files, ConfigFile) THEN {ConfigFile}
                  ELSE IF Present(mirror.files, LegacyConfigFile) THEN {LegacyConfigFile}
                  ELSE {}
           d == Decision("config")
       IN  IF src = {}
           THEN /\ bootPc' = "skills"
                /\ UNCHANGED <<decisions, bootLog, bootFailed, local>>
           ELSE /\ decisions' = Append(decisions, d)
                /\ IF ~d.restore
                   THEN /\ bootPc' = "skills"
                        /\ UNCHANGED <<bootLog, bootFailed, local>>
                   ELSE \E cpFails \in BOOLEAN, markerFails \in BOOLEAN :
                        IF cpFails
                        THEN \* cp -a has no `|| true`: set -e ends the script
                             /\ bootPc' = "aborted"
                             /\ bootFailed' = bootFailed \cup {"config"}
                             /\ UNCHANGED <<bootLog, local>>
                        ELSE /\ bootPc' = "skills"
                             /\ bootLog' = bootLog \cup {<<"config", f>> : f \in src}
                             /\ bootFailed' =
                                  bootFailed \cup (IF markerFails THEN {"marker"} ELSE {})
                             /\ local' =
                                  [marker |-> IF markerFails /\ src = {ConfigFile}
                                              THEN local.marker
                                              ELSE mirror.marker,
                                   files |-> CopyIn(local.files, mirror.files, src)]
    /\ UNCHANGED mirror

\* Lines 165-174: restore the skills.
BootRestoreSkills ==
    /\ bootPc = "skills"
    /\ IF ~Present(mirror.files, SkillFile)
       THEN /\ bootPc' = "workspace"
            /\ UNCHANGED <<decisions, bootLog, bootFailed, local>>
       ELSE /\ decisions' = Append(decisions, Decision("skills"))
            /\ IF ~Decision("skills").restore
               THEN /\ bootPc' = "workspace"
                    /\ UNCHANGED <<bootLog, bootFailed, local>>
               ELSE \E cpFails \in BOOLEAN :
                    IF cpFails
                    THEN /\ bootPc' = "aborted"
                         /\ bootFailed' = bootFailed \cup {"skills"}
                         /\ UNCHANGED <<bootLog, local>>
                    ELSE /\ bootPc' = "workspace"
                         /\ bootLog' = bootLog \cup {<<"skills", SkillFile>>}
                         /\ local' = [local EXCEPT
                                !.files = CopyIn(local.files, mirror.files, {SkillFile})]
                         /\ UNCHANGED bootFailed
    /\ UNCHANGED mirror

\* Lines 181-205: restore the persona files and memory/, tov/, assets/; every
\* copy of this block ends in `2>/dev/null || true`.
BootRestoreWorkspace ==
    /\ bootPc = "workspace"
    /\ IF \A f \in WorkspaceFiles : ~Present(mirror.files, f)
       THEN /\ bootPc' = "synth"
            /\ UNCHANGED <<decisions, bootLog, bootFailed, local>>
       ELSE /\ decisions' = Append(decisions, Decision("workspace"))
            /\ bootPc' = "synth"
            /\ IF ~Decision("workspace").restore
               THEN UNCHANGED <<bootLog, bootFailed, local>>
               ELSE \E failing \in SUBSET {"md", "memory", "tov", "assets"} :
                    LET entries == WorkspaceEntries(mirror.files)
                        \* a pattern that matches nothing stays literal: cp fails
                        done == {e \in entries : e[1] \notin failing /\ e[2] # {}}
                        copied == UNION {e[2] : e \in done}
                    IN  /\ bootFailed' = bootFailed \cup {e[1] : e \in entries \ done}
                        /\ bootLog' = bootLog \cup
                                UNION {{<<e[1], f>> : f \in e[2]} : e \in done}
                        /\ local' = [local EXCEPT
                                !.files = CopyIn(local.files, mirror.files, copied)]
    /\ UNCHANGED mirror

\* Lines 226-495: create the config file when there is none, then rewrite it
\* from the environment.
BootSynthesizeConfig ==
    /\ bootPc = "synth"
    /\ bootPc' = "launch"
    /\ local' = [local EXCEPT !.files["/root/.clawdbot/clawdbot.json"] =
                    IF @ = 0 THEN 1 ELSE @]
    /\ UNCHANGED <<mirror, decisions, bootLog, bootFailed>>

\* Lines 526-546: exec clawdbot gateway.
BootLaunchGateway ==
    /\ bootPc = "launch"
    /\ bootPc' = "running"
    /\ UNCHANGED <<storeVars, decisions, bootLog, bootFailed>>

BootNext ==
    \/ BootStart /\ UNCHANGED <<fetchVars, restoreVars, backupVars, configVars>>
    \/ BootRestoreConfig /\ UNCHANGED <<fetchVars, restoreVars, backupVars, configVars>>
    \/ BootRestoreSkills /\ UNCHANGED <<fetchVars, restoreVars, backupVars, configVars>>
    \/ BootRestoreWorkspace /\ UNCHANGED <<fetchVars, restoreVars, backupVars, configVars>>
    \/ BootSynthesizeConfig /\ UNCHANGED <<fetchVars, restoreVars, backupVars, configVars>>
    \/ BootLaunchGateway /\ UNCHANGED <<fetchVars, restoreVars, backupVars, configVars>>

(***************************************************************************)
(* The life of a deployment around the startup script: the gateway edits   *)
(* local files, the backup job mirrors them, the gateway or the container  *)
(* stops and the script runs again.  The backup job is not part of these   *)
(* sources; it is taken as the specification describes it: it copies the   *)
(* named directories from local to mirror (a merge, nothing is deleted)    *)
(* and then writes the mirror's marker.                                    *)
(***************************************************************************)
\* The newest content version an edit may produce.
MaxVersion == 3

\* The mirror files the backup job writes, each from Dest(f).
BackedUp ==
    {ConfigFile, SkillFile, "workspace/SOUL.md", "workspace/memory/notes.md",
     "workspace/tov/voice.md", "workspace/assets/avatar.png"}

\* The local files the gateway edits in this model.
Editable == {Dest(ConfigFile), Dest(SkillFile), Dest("workspace/SOUL.md")}

RECURSIVE MaxOf(_)
MaxOf(S) == IF S = {} THEN 0 ELSE LET x == CHOOSE x \in S : TRUE
                                  IN  IF MaxOf(S \ {x}) > x THEN MaxOf(S \ {x}) ELSE x

\* The newest content version on either side, and the latest marker time.
NewestVersion ==
    MaxOf({local.files[d] : d \in LocalFiles} \cup {mirror.files[f] : f \in MirrorFiles})
LatestWall == MaxOf({mirror.marker.wall, local.marker.wall, 1})

\* The gateway (or its user) changes a local file.
LifeEdit ==
    /\ bootPc = "running"
    /\ NewestVersion < MaxVersion
    /\ \E d \in Editable :
        local' = [local EXCEPT !.files[d] = NewestVersion + 1]
    /\ UNCHANGED <<mirror, bootVars>>

\* One cycle of the backup job: directories first, the marker last.
LifeBackup ==
    /\ bootPc = "running"
    /\ LatestWall < MaxWall
    /\ mirror' =
          [marker |-> [kind |-> "ts", wall |-> LatestWall + 1, off |-> 0],
           files |-> [f \in MirrorFiles |->
                        IF f \in BackedUp /\ Present(local.files, Dest(f))
                        THEN local.files[Dest(f)] ELSE mirror.files[f]]]
    /\ UNCHANGED <<local, bootVars>>

\* The gateway process ends, or the script ended early; the disk stays.
LifeGatewayStops ==
    /\ bootPc \in {"running", "exit0", "aborted"}
    /\ bootPc' = "off"
    /\ decisions' = <<>>
    /\ bootLog' = {}
    /\ bootFailed' = {}
    /\ UNCHANGED storeVars

\* The container is replaced by a new one with an empty disk.
LifeNewContainer ==
    /\ bootPc \in {"running", "exit0", "aborted"}
    /\ bootPc' = "off"
    /\ decisions' = <<>>
    /\ bootLog' = {}
    /\ bootFailed' = {}
    /\ local' = NewLocal
    /\ UNCHANGED mirror

LifeNext ==
    \/ BootStart /\ UNCHANGED <<fetchVars, restoreVars, backupVars, configVars>>
    \/ BootRestoreConfig /\ UNCHANGED <<fetchVars, restoreVars, backupVars, configVars>>
    \/ BootRestoreSkills /\ UNCHANGED <<fetchVars, restoreVars, backupVars, configVars>>
    \/ BootRestoreWorkspace /\ UNCHANGED <<fetchVars, restoreVars, backupVars, configVars>>
    \/ BootSynthesizeConfig /\ UNCHANGED <<fetchVars, restoreVars, backupVars, configVars>>
    \/ BootLaunchGateway /\ UNCHANGED <<fetchVars, restoreVars, backupVars, configVars>>
    \/ LifeEdit /\ UNCHANGED <<fetchVars, restoreVars, backupVars, configVars>>
    \/ LifeBackup /\ UNCHANGED <<fetchVars, restoreVars, backupVars, configVars>>
    \/ LifeGatewayStops /\ UNCHANGED <<fetchVars, restoreVars, backupVars, configVars>>
    \/ LifeNewContainer /\ UNCHANGED <<fetchVars, restoreVars, backupVars, configVars>>

(***************************************************************************)
(* restoreFromR2 (src/gateway/restore.ts), await by await.                 *)
(***************************************************************************)
NoResult == [success |-> FALSE, error |-> "", lastSync |-> NoMarker]
Failure(error) == [success |-> FALSE, error |-> error, lastSync |-> NoMarker]
Success(lastSync) == [success |-> TRUE, error |-> "", lastSync |-> lastSync]

\* The directory entries of restoreCmd and the mirror files each one copies.
RestoreEntries == {"clawdbot", "skills", "md", "memory", "tov", "assets"}

\* find workspace -maxdepth 1 -name '*.md' -type f
restoreMdFiles(mirrorFiles) ==
    {f \in WorkspaceFiles :
        Present(mirrorFiles, f) /\ IsTopLevelFile(f) /\ MatchesMd(TopEntry(f))}

EntryFiles(e, mirrorFiles) ==
    CASE e = "clawdbot" -> {f \in {ConfigFile} : Present(mirrorFiles, f)}
      [] e = "skills" -> {f \in {SkillFile} : Present(mirrorFiles, f)}
      [] e = "md" -> restoreMdFiles(mirrorFiles)
      [] OTHER -> {f \in WorkspaceFiles : Present(mirrorFiles, f) /\ TopEntry(f) = e}

\* A restoreCmd that ends before the assets copy.
restoreCmdWithoutAssets ==
    << <<"", "mkdir">>,
       <<"&&", "clawdbot">>, <<"||", "true">>,
       <<"&&", "skills">>, <<"||", "true">>,
       <<"&&", "md">>, <<"||", "true">>,
       <<"&&", "memory">>, <<"||", "true">>,
       <<"&&", "tov">>, <<"||", "true">> >>

\* restoreCmd: the commands and the connector in front of each.
restoreCmd ==
    << <<"", "mkdir">>,
       <<"&&", "clawdbot">>, <<"||", "true">>,
       <<"&&", "skills">>, <<"||", "true">>,
       <<"&&", "md">>, <<"||", "true">>,
       <<"&&", "memory">>, <<"||", "true">>,
       <<"&&", "tov">>, <<"||", "true">>,
       <<"&&", "assets">>, <<"||", "true">> >>

\* The shell's left-to-right evaluation of an && / || list: the exit status
\* and the commands run after the first n, when the commands in `failing` fail.
RECURSIVE RunList(_, _, _)
RunList(list, failing, n) ==
    IF n = 0 THEN [ok |-> TRUE, ran |-> {}]
    ELSE LET before == RunList(list, failing, n - 1)
             conn == list[n][1]
             cmd == list[n][2]
             runs == \/ conn = ""
                     \/ conn = "&&" /\ before.ok
                     \/ conn = "||" /\ ~before.ok
         IN  IF runs
             THEN [ok |-> cmd \notin failing, ran |-> before.ran \cup {cmd}]
             ELSE before

\* mountR2Storage(sandbox, env) is not part of these sources; as the
\* specification has it, it reports success or failure and does not throw.
mountR2Storage == BOOLEAN

\* A function with a try block around the copy phase only.
InTryCopyOnly(step) == step = "copy"

\* The awaits of restoreFromR2 that lie in a try block with a catch that
\* returns a RestoreResult: the marker check (lines 48-69), the copy phase
\* and the marker re-read (lines 83-101).
InTry(step) == step \in {"verify", "copy", "report"}

\* An exception thrown outside every try block leaves restoreFromR2.
Escapes(step) ==
    /\ rPc' = "escaped"
    /\ rThrown' = step
    /\ UNCHANGED rResult

\* Lines 35-45: the credentials check and the mount.
RestoreBegin ==
    /\ rPc = "off"
    /\ \E configured \in BOOLEAN, mounted \in mountR2Storage :
        IF ~configured
        THEN rPc' = "returned" /\ rResult' = Failure("R2 storage is not configured")
        ELSE IF ~mounted
        THEN rPc' = "returned" /\ rResult' = Failure("Failed to mount R2 storage")
        ELSE rPc' = "verify" /\ UNCHANGED rResult
    /\ UNCHANGED <<storeVars, rAttempted, rFailed, rThrown, rLog>>

\* Lines 47-69: read and validate the mirror's marker.
RestoreVerify ==
    /\ rPc = "verify"
    /\ \E throws \in BOOLEAN :
        IF throws /\ ~InTry("verify")
        THEN Escapes("verify")
        ELSE IF throws
        THEN /\ rPc' = "returned"
             /\ rResult' = Failure("Failed to verify R2 backup")
             /\ rThrown' = "verify"
        ELSE IF ~MatchesDatePrefix(mirror.marker)
        THEN /\ rPc' = "returned"
             /\ rResult' = Failure("No valid backup found in R2")
             /\ UNCHANGED rThrown
        ELSE rPc' = "copy" /\ UNCHANGED <<rResult, rThrown>>
    /\ UNCHANGED <<storeVars, rAttempted, rFailed, rLog>>

\* Lines 71-85: run restoreCmd.  A directory copy fails when its source is
\* missing or when the environment makes it fail; a copy that fails is taken
\* to have copied nothing.
RestoreCopy ==
    /\ rPc = "copy"
    /\ \E throws \in BOOLEAN, broken \in SUBSET ({"mkdir"} \cup RestoreEntries) :
        IF throws /\ ~InTry("copy")
        THEN Escapes("copy") /\ UNCHANGED <<local, rAttempted, rFailed, rLog>>
        ELSE IF throws
        THEN /\ rPc' = "returned"
             /\ rResult' = Failure("Restore error")
             /\ rThrown' = "copy"
             /\ UNCHANGED <<local, rAttempted, rFailed, rLog>>
        ELSE LET failing == broken \cup
                     {e \in RestoreEntries \ {"md"} : EntryFiles(e, mirror.files) = {}}
                 run == RunList(restoreCmd, failing, Len(restoreCmd))
                 done == (run.ran \cap RestoreEntries) \ failing
                 copied == UNION {EntryFiles(e, mirror.files) : e \in done}
             IN  /\ rPc' = "report"
                 /\ rAttempted' = run.ran \ {"true"}
                 /\ rFailed' = run.ran \cap failing
                 /\ rLog' = UNION {{<<e, f>> : f \in EntryFiles(e, mirror.files)} : e \in done}
                 /\ local' = [local EXCEPT
                        !.files = CopyIn(local.files, mirror.files, copied)]
                 /\ UNCHANGED <<rResult, rThrown>>
    /\ UNCHANGED mirror

\* Lines 87-101: read the marker again and return.
RestoreReport ==
    /\ rPc = "report"
    /\ \E throws \in BOOLEAN :
        IF throws /\ ~InTry("report")
        THEN Escapes("report")
        ELSE IF throws
        THEN rPc' = "returned" /\ rResult' = Failure("Restore error") /\ rThrown' = "report"
        ELSE rPc' = "returned" /\ rResult' = Success(mirror.marker) /\ UNCHANGED rThrown
    /\ UNCHANGED <<storeVars, rAttempted, rFailed, rLog>>

RestoreNext ==
    \/ RestoreBegin /\ UNCHANGED <<fetchVars, bootVars, backupVars, configVars>>
    \/ RestoreVerify /\ UNCHANGED <<fetchVars, bootVars, backupVars, configVars>>
    \/ RestoreCopy /\ UNCHANGED <<fetchVars, bootVars, backupVars, configVars>>
    \/ RestoreReport /\ UNCHANGED <<fetchVars, bootVars, backupVars, configVars>>

(***************************************************************************)
(* restoreFromR2 while the backup job runs.  The backup job is not part of *)
(* these sources; it is taken as the specification describes it: in each   *)
(* cycle it copies the named directories to the mirror, one after the      *)
(* other, and writes the marker last.  A cycle writes content of one       *)
(* version, the time it then puts into the marker.                         *)
(***************************************************************************)
BackupOrder == <<"clawdbot", "skills", "md", "memory", "tov", "assets">>

\* The mirror files a backup cycle writes for an entry.
BackupEntryFiles(e) ==
    CASE e = "clawdbot" -> {ConfigFile}
      [] e = "skills" -> {SkillFile}
      [] e = "md" -> {"workspace/SOUL.md"}
      [] OTHER -> {f \in BackedUp \cap WorkspaceFiles : TopEntry(f) = e}

\* The mirror after one complete backup cycle at the earliest marker time.
FirstBackup ==
    [marker |-> [kind |-> "ts", wall |-> 2, off |-> 0], files |-> MirrorContent(BackedUp)]

\* A backup cycle starts.
BackupBegin ==
    /\ bCycle = 0
    /\ MaxOf({LatestWall, NewestVersion}) < MaxWall
    /\ bCycle' = MaxOf({LatestWall, NewestVersion}) + 1
    /\ bDone' = {}
    /\ UNCHANGED storeVars

\* The cycle copies its next directory to the mirror.
BackupCopy ==
    /\ bCycle # 0
    /\ Cardinality(bDone) < Len(BackupOrder)
    /\ LET e == BackupOrder[Cardinality(bDone) + 1]
       IN  /\ mirror' = [mirror EXCEPT !.files =
                    [f \in MirrorFiles |->
                        IF f \in BackupEntryFiles(e) THEN bCycle ELSE mirror.files[f]]]
           /\ bDone' = bDone \cup {e}
    /\ UNCHANGED <<local, bCycle>>

\* The cycle writes the marker, last.
BackupMarker ==
    /\ bCycle # 0
    /\ Cardinality(bDone) = Len(BackupOrder)
    /\ mirror' = [mirror EXCEPT !.marker = [kind |-> "ts", wall |-> bCycle, off |-> 0]]
    /\ bCycle' = 0
    /\ bDone' = {}
    /\ UNCHANGED local

\* The marker file stops being readable (`cat` prints nothing).
MirrorMarkerLost ==
    /\ mirror.marker.kind = "ts"
    /\ mirror' = [mirror EXCEPT !.marker = NoMarker]
    /\ UNCHANGED <<local, backupVars>>

SyncNext ==
    \/ RestoreBegin /\ UNCHANGED <<fetchVars, bootVars, backupVars, configVars>>
    \/ RestoreVerify /\ UNCHANGED <<fetchVars, bootVars, backupVars, configVars>>
    \/ RestoreCopy /\ UNCHANGED <<fetchVars, bootVars, backupVars, configVars>>
    \/ RestoreReport /\ UNCHANGED <<fetchVars, bootVars, backupVars, configVars>>
    \/ BackupBegin /\ UNCHANGED <<fetchVars, bootVars, restoreVars, configVars>>
    \/ BackupCopy /\ UNCHANGED <<fetchVars, bootVars, restoreVars, configVars>>
    \/ BackupMarker /\ UNCHANGED <<fetchVars, bootVars, restoreVars, configVars>>
    \/ MirrorMarkerLost /\ UNCHANGED <<fetchVars, bootVars, restoreVars, configVars>>

(***************************************************************************)
(* The config update of the startup script (the node program of lines      *)
(* 254-495), for the chat channels with a DM policy.  An unset environment *)
(* variable and an empty one are both "" (both falsy); an allow-list is    *)
(* [set, list], set = FALSE for a section without allowFrom.               *)
(***************************************************************************)
NoList == [set |-> FALSE, list |-> <<>>]
List(l) == [set |-> TRUE, list |-> l]

NoTelegram ==
    [present |-> FALSE, botToken |-> "", enabled |-> FALSE, dmPolicy |-> "",
     allowFrom |-> NoList]
NoDiscord ==
    [present |-> FALSE, token |-> "", enabled |-> FALSE, dmPresent |-> FALSE,
     dmPolicy |-> "", dmAllowFrom |-> NoList]
NoChannels == [telegram |-> NoTelegram, discord |-> NoDiscord]

\* No earlier boot of this container wrote a DM policy.
NoPolicies == [telegram |-> "", discord |-> ""]

NoEnv ==
    [TELEGRAM_BOT_TOKEN |-> "", TELEGRAM_DM_POLICY |-> "", TELEGRAM_DM_ALLOW_FROM |-> "",
     DISCORD_BOT_TOKEN |-> "", DISCORD_DM_POLICY |-> ""]

\* The environments and the configs (restored or left by an earlier boot)
\* the update starts from.
Policies == {"", "open", "pairing"}
StoredLists == {NoList, List(<<"*">>), List(<<"111">>)}
Envs ==
    [TELEGRAM_BOT_TOKEN : {"", "tg-token"}, TELEGRAM_DM_POLICY : Policies,
     TELEGRAM_DM_ALLOW_FROM : {"", "123,456", "789"},
     DISCORD_BOT_TOKEN : {"", "dc-token"}, DISCORD_DM_POLICY : Policies]
TelegramSections ==
    {NoTelegram} \cup
    [present : {TRUE}, botToken : {"old-tg-token"}, enabled : {TRUE},
     dmPolicy : {"pairing", "open"}, allowFrom : StoredLists]
DiscordSections ==
    {NoDiscord} \cup
    [present : {TRUE}, token : {"old-dc-token"}, enabled : {TRUE}, dmPresent : {FALSE},
     dmPolicy : {""}, dmAllowFrom : {NoList}] \cup
    [present : {TRUE}, token : {"old-dc-token"}, enabled : {TRUE}, dmPresent : {TRUE},
     dmPolicy : {"pairing", "open"}, dmAllowFrom : StoredLists]
ChannelConfigs == [telegram : TelegramSections, discord : DiscordSections]

\* process.env.TELEGRAM_DM_ALLOW_FROM.split(',')
Split(v) ==
    CASE v = "123,456" -> <<"123", "456">>
      [] OTHER -> <<v>>

\* An update that keeps an allow-list the config already holds.
TelegramAllowFromKeepStored(section, e) ==
    IF section.allowFrom.set THEN section.allowFrom
    ELSE IF e.TELEGRAM_DM_ALLOW_FROM # "" THEN List(Split(e.TELEGRAM_DM_ALLOW_FROM))
    ELSE IF e.TELEGRAM_DM_POLICY = "open" THEN List(<<"*">>)
    ELSE section.allowFrom

\* Lines 313-321: telegramDmPolicy and the allowFrom it leads to.
telegramDmPolicy(e) == IF e.TELEGRAM_DM_POLICY # "" THEN e.TELEGRAM_DM_POLICY ELSE "pairing"

TelegramAllowFrom(section, e) ==
    IF e.TELEGRAM_DM_ALLOW_FROM # "" THEN List(Split(e.TELEGRAM_DM_ALLOW_FROM))
    ELSE IF telegramDmPolicy(e) = "open" THEN List(<<"*">>)
    ELSE section.allowFrom

\* Lines 308-322: the Telegram block.
TelegramConfiguration(section, e) ==
    IF e.TELEGRAM_BOT_TOKEN = "" THEN section
    ELSE [present |-> TRUE, botToken |-> e.TELEGRAM_BOT_TOKEN, enabled |-> TRUE,
          dmPolicy |-> telegramDmPolicy(e),
          allowFrom |-> TelegramAllowFrom(section, e)]

\* Lines 324-338: the Discord block.
discordDmPolicy(e) == IF e.DISCORD_DM_POLICY # "" THEN e.DISCORD_DM_POLICY ELSE "pairing"

\* An update that clears the stored allow-list when the policy is not open.
DiscordConfigurationClearsList(section, e) ==
    IF e.DISCORD_BOT_TOKEN = "" THEN section
    ELSE [present |-> TRUE, token |-> e.DISCORD_BOT_TOKEN, enabled |-> TRUE,
          dmPresent |-> TRUE, dmPolicy |-> discordDmPolicy(e),
          dmAllowFrom |-> IF discordDmPolicy(e) = "open" THEN List(<<"*">>)
                          ELSE NoList]

DiscordConfiguration(section, e) ==
    IF e.DISCORD_BOT_TOKEN = "" THEN section
    ELSE [present |-> TRUE, token |-> e.DISCORD_BOT_TOKEN, enabled |-> TRUE,
          dmPresent |-> TRUE, dmPolicy |-> discordDmPolicy(e),
          dmAllowFrom |-> IF discordDmPolicy(e) = "open" THEN List(<<"*">>)
                          ELSE section.dmAllowFrom]

\* The node program: read the config, update it, write it back.
UpdateConfig ==
    /\ configWritten = NoChannels
    /\ configWritten' =
          [telegram |-> TelegramConfiguration(configRead.telegram, env),
           discord |-> DiscordConfiguration(configRead.discord, env)]
    /\ UNCHANGED <<env, configRead, policiesBefore>>

\* The next boot reads what this one wrote; the operator may have changed
\* the channel variables in between.
BootAgain ==
    /\ configWritten # NoChannels
    /\ configRead # configWritten
    /\ configRead' = configWritten
    /\ configWritten' = NoChannels
    /\ policiesBefore' =
          [telegram |-> IF env.TELEGRAM_BOT_TOKEN # "" THEN telegramDmPolicy(env) ELSE "",
           discord |-> IF env.DISCORD_BOT_TOKEN # "" THEN discordDmPolicy(env) ELSE ""]
    /\ env' \in Envs

ConfigNext ==
    \/ UpdateConfig /\ UNCHANGED <<fetchVars, storeVars, bootVars, restoreVars, backupVars>>
    \/ BootAgain /\ UNCHANGED <<fetchVars, storeVars, bootVars, restoreVars, backupVars>>

(***************************************************************************)
(* The specifications.                                                     *)
(***************************************************************************)
\* The interceptor is loaded with any configuration; nothing else runs.
InitFetch ==
    /\ CF_AIG_AUTHORIZATION \in Tokens
    /\ AI_GATEWAY_BASE_URL \in BaseUrls
    /\ req = [input |-> NullInput, init |-> NoInit]
    /\ out = NoOut
    /\ prev = NoOut
    /\ pass = 0
    /\ mirror = EmptyMirror
    /\ local = NewLocal
    /\ bootPc = "off"
    /\ decisions = <<>>
    /\ bootLog = {}
    /\ bootFailed = {}
    /\ rPc = "off"
    /\ rResult = NoResult
    /\ rAttempted = {}
    /\ rFailed = {}
    /\ rThrown = ""
    /\ rLog = {}
    /\ bCycle = 0
    /\ bDone = {}
    /\ env = NoEnv
    /\ configRead = NoChannels
    /\ configWritten = NoChannels
    /\ policiesBefore = NoPolicies

\* Any mirror and any local disk; the script has not started.
InitBoot ==
    /\ CF_AIG_AUTHORIZATION = ""
    /\ AI_GATEWAY_BASE_URL = NoBase
    /\ req = [input |-> NullInput, init |-> NoInit]
    /\ out = NoOut
    /\ prev = NoOut
    /\ pass = 0
    /\ mirror \in InitialMirrors
    /\ local \in InitialLocals
    /\ bootPc = "off"
    /\ decisions = <<>>
    /\ bootLog = {}
    /\ bootFailed = {}
    /\ rPc = "off"
    /\ rResult = NoResult
    /\ rAttempted = {}
    /\ rFailed = {}
    /\ rThrown = ""
    /\ rLog = {}
    /\ bCycle = 0
    /\ bDone = {}
    /\ env = NoEnv
    /\ configRead = NoChannels
    /\ configWritten = NoChannels
    /\ policiesBefore = NoPolicies

\* Any mirror and any local files; restoreFromR2 has not started.  It never
\* reads the local marker, which is absent or the newest one.
InitRestore ==
    /\ CF_AIG_AUTHORIZATION = ""
    /\ AI_GATEWAY_BASE_URL = NoBase
    /\ req = [input |-> NullInput, init |-> NoInit]
    /\ out = NoOut
    /\ prev = NoOut
    /\ pass = 0
    /\ mirror \in InitialMirrors
    /\ local \in {l \in InitialLocals : l.marker \in {NoMarker, NewestMarker}}
    /\ bootPc = "off"
    /\ decisions = <<>>
    /\ bootLog = {}
    /\ bootFailed = {}
    /\ rPc = "off"
    /\ rResult = NoResult
    /\ rAttempted = {}
    /\ rFailed = {}
    /\ rThrown = ""
    /\ rLog = {}
    /\ bCycle = 0
    /\ bDone = {}
    /\ env = NoEnv
    /\ configRead = NoChannels
    /\ configWritten = NoChannels
    /\ policiesBefore = NoPolicies

\* A first deployment: nothing in the mirror, a new disk.
InitLife ==
    /\ CF_AIG_AUTHORIZATION = ""
    /\ AI_GATEWAY_BASE_URL = NoBase
    /\ req = [input |-> NullInput, init |-> NoInit]
    /\ out = NoOut
    /\ prev = NoOut
    /\ pass = 0
    /\ mirror = EmptyMirror
    /\ local = NewLocal
    /\ bootPc = "off"
    /\ decisions = <<>>
    /\ bootLog = {}
    /\ bootFailed = {}
    /\ rPc = "off"
    /\ rResult = NoResult
    /\ rAttempted = {}
    /\ rFailed = {}
    /\ rThrown = ""
    /\ rLog = {}
    /\ bCycle = 0
    /\ bDone = {}
    /\ env = NoEnv
    /\ configRead = NoChannels
    /\ configWritten = NoChannels
    /\ policiesBefore = NoPolicies

\* A mirror that is empty or holds one complete backup, a new disk.
InitSync ==
    /\ CF_AIG_AUTHORIZATION = ""
    /\ AI_GATEWAY_BASE_URL = NoBase
    /\ req = [input |-> NullInput, init |-> NoInit]
    /\ out = NoOut
    /\ prev = NoOut
    /\ pass = 0
    /\ mirror \in {EmptyMirror, FirstBackup}
    /\ local = NewLocal
    /\ bootPc = "off"
    /\ decisions = <<>>
    /\ bootLog = {}
    /\ bootFailed = {}
    /\ rPc = "off"
    /\ rResult = NoResult
    /\ rAttempted = {}
    /\ rFailed = {}
    /\ rThrown = ""
    /\ rLog = {}
    /\ bCycle = 0
    /\ bDone = {}
    /\ env = NoEnv
    /\ configRead = NoChannels
    /\ configWritten = NoChannels
    /\ policiesBefore = NoPolicies

\* Any channel environment and any config file; the update has not run.
InitConfig ==
    /\ CF_AIG_AUTHORIZATION = ""
    /\ AI_GATEWAY_BASE_URL = NoBase
    /\ req = [input |-> NullInput, init |-> NoInit]
    /\ out = NoOut
    /\ prev = NoOut
    /\ pass = 0
    /\ mirror = EmptyMirror
    /\ local = NewLocal
    /\ bootPc = "off"
    /\ decisions = <<>>
    /\ bootLog = {}
    /\ bootFailed = {}
    /\ rPc = "off"
    /\ rResult = NoResult
    /\ rAttempted = {}
    /\ rFailed = {}
    /\ rThrown = ""
    /\ rLog = {}
    /\ bCycle = 0
    /\ bDone = {}
    /\ env \in Envs
    /\ configRead \in ChannelConfigs
    /\ configWritten = NoChannels
    /\ policiesBefore = NoPolicies

\* The interceptor, for every configuration and every call.
SpecFetch == InitFetch /\ [][FetchNext]_vars

\* One run of the startup script, from every mirror and every local disk.
SpecBoot == InitBoot /\ [][BootNext]_vars

\* One call of restoreFromR2, from every mirror and every local disk.
SpecRestore == InitRestore /\ [][RestoreNext]_vars

\* Boots, edits, backups and restarts of one deployment.
SpecLife == InitLife /\ [][LifeNext]_vars

\* One call of restoreFromR2 interleaved with backup cycles.
SpecSync == InitSync /\ [][SyncNext]_vars

\* The config update, from every environment and every config.
SpecConfig == InitConfig /\ [][ConfigNext]_vars

(***************************************************************************)
(* Interceptor: properties.                                                *)
(***************************************************************************)
CredentialHeaders == {"Authorization", "x-goog-api-key"}

\* The headers of the request the caller asked for, and of the one sent.
AskedHeaders == SentHeaders(req.input, req.init)
ForwardedHeaders == SentHeaders(out.input, out.init)

\* The route of a URL: the first /v1/acc/<gw>/<prov> of its path.
RouteProv(u) == IF u.pre # <<>> THEN u.pre[1].prov ELSE u.route.prov
OnBYOKRoute(u) ==
    u.host = RelayHost /\ RouteProv(u) \in {"google-ai-studio", "custom-fireworks"}

\* A finished call that handed the underlying fetch a request it can send
\* (an absolute URL, headers that convert).
Forwarded ==
    /\ pass >= 1 /\ out.status = "fetched"
    /\ req.input.url.abs /\ req.init.hkind # "invalid"

\* C3 (as claimed): an embedding request is never sent to the relay and keeps
\* its Authorization and x-goog-api-key headers as the caller gave them.
C3_EmbeddingBypassesRelay ==
    (Forwarded /\ isEmbeddingRequest(req.input.url)) =>
        /\ SentUrl(out.input).host # RelayHost
        /\ \A n \in CredentialHeaders : Get(ForwardedHeaders, n) = Get(AskedHeaders, n)

\* C4 (as claimed): with no relay token configured, a credential header the
\* caller's request carries (in init or in a Request object) is still on the
\* request that is sent.
C4_NoTokenNoStrip ==
    (Forwarded /\ CF_AIG_AUTHORIZATION = "") =>
        \A n \in CredentialHeaders : Has(AskedHeaders, n) => Has(ForwardedHeaders, n)

\* C5 (as claimed): with a token configured, a non-embedding request sent to
\* the relay on a BYOK route has no Authorization header and its
\* cf-aig-authorization header is the configured token, whatever the caller sent.
C5_RelayAuthIsConfiguredToken ==
    (Forwarded /\ CF_AIG_AUTHORIZATION # "" /\ ~isEmbeddingRequest(out.input.url)
        /\ OnBYOKRoute(SentUrl(out.input))) =>
        /\ ~Has(ForwardedHeaders, "Authorization")
        /\ Get(ForwardedHeaders, "cf-aig-authorization") = <<CF_AIG_AUTHORIZATION>>

\* C5 (amended): ... has no Authorization header, and its cf-aig-authorization
\* header is the one the caller's init headers already carried, or else the
\* configured token.
C5_RelayAuthUnlessSupplied ==
    (Forwarded /\ CF_AIG_AUTHORIZATION # "" /\ ~isEmbeddingRequest(out.input.url)
        /\ OnBYOKRoute(SentUrl(out.input))) =>
        /\ ~Has(ForwardedHeaders, "Authorization")
        /\ Get(ForwardedHeaders, "cf-aig-authorization") =
              IF Has(ToHeaders(req.init.hdrs), "cf-aig-authorization")
              THEN Get(ToHeaders(req.init.hdrs), "cf-aig-authorization")
              ELSE <<CF_AIG_AUTHORIZATION>>

\* C5 witness: a call with an Authorization header and no relay-auth header was
\* patched and sent to the relay with the token configured.
C5_Witness ==
    /\ Forwarded /\ pass = 1 /\ out.via = "byok" /\ CF_AIG_AUTHORIZATION # ""
    /\ ~isEmbeddingRequest(out.input.url) /\ OnBYOKRoute(SentUrl(out.input))
    /\ Has(AskedHeaders, "Authorization")
    /\ ~Has(AskedHeaders, "cf-aig-authorization")
    /\ Has(ForwardedHeaders, "cf-aig-authorization")

\* C6: patchedFetch applied again to the (URL, headers) it sent for a request
\* that took the BYOK header step sends the same URL and the same headers, and
\* with a token configured the relay-auth header is there exactly once.
C6_SecondPassChangesNothing ==
    (pass >= 2 /\ prev.via = "byok") =>
        /\ out.status = "fetched"
        /\ SentUrl(out.input) = SentUrl(prev.input)
        /\ ForwardedHeaders = SentHeaders(prev.input, prev.init)
        /\ Cardinality({p \in ForwardedHeaders : p[1] = "cf-aig-authorization"}) <= 1
        /\ CF_AIG_AUTHORIZATION # "" => Len(Get(ForwardedHeaders, "cf-aig-authorization")) = 1

\* C6 witness: the second pass ran on a request whose first pass had rewritten
\* the URL to the relay, removed a credential and added the relay-auth header.
C6_Witness ==
    /\ pass = 2 /\ prev.via = "byok" /\ out.via = "byok"
    /\ CF_AIG_AUTHORIZATION # ""
    /\ prev.input.url.pre # <<>>
    /\ Get(ForwardedHeaders, "cf-aig-authorization") = <<CF_AIG_AUTHORIZATION>>

\* C7 (as claimed): a request to a host other than the native Google host and
\* not to the relay host on a /google-ai-studio or /custom- route reaches the
\* underlying fetch with the input and init it came with.
C7_OtherRoutesPassThrough ==
    (pass >= 1 /\ req.input.kind # "null" /\ req.input.url.abs
        /\ req.input.url.host # GoogleHost /\ ~OnBYOKRoute(req.input.url)) =>
        out = Fetched("pass", req.input, req.init)

\* C7 (amended): a request whose URL string contains neither the native Google
\* host name nor the relay host name together with "/google-ai-studio" or
\* "/custom-" (anywhere in the string) reaches the underlying fetch with the
\* input and init it came with.
C7_NoSubstringMatchPassesThrough ==
    (pass >= 1 /\ req.input.kind # "null"
        /\ ~Includes(req.input.url, GoogleHost)
        /\ ~(Includes(req.input.url, RelayHost)
             /\ (Includes(req.input.url, "/google-ai-studio")
                 \/ Includes(req.input.url, "/custom-")))) =>
        /\ out.status = "fetched"
        /\ out.input = req.input
        /\ out.init = req.init

\* C7 witness: a request with credentials to the relay's openai route, with a
\* token configured, passed through.
C7_Witness ==
    /\ pass = 1 /\ out.via = "pass" /\ CF_AIG_AUTHORIZATION # ""
    /\ req.input.url.host = RelayHost /\ req.input.url.route.prov = "openai"
    /\ Has(AskedHeaders, "Authorization")
    /\ out.init = req.init

\* C8 (as claimed): for a string, URL or Request input, whatever the URL and
\* the init, patchedFetch raises no exception of its own and the request reaches
\* the underlying fetch.
C8_NeverThrows ==
    (pass >= 1 /\ req.input.kind # "null") => out.status = "fetched"

(***************************************************************************)
(* Startup script and restoreFromR2: properties.                           *)
(***************************************************************************)
\* C1 (as claimed): every call of should_restore_from_r2 answers "restore"
\* exactly when epoch(mirror marker) > epoch(local marker), a missing or
\* unparseable marker counting as epoch 0.
C1_RestoreIffMirrorEpochGreater ==
    \A i \in DOMAIN decisions :
        decisions[i].restore <=> (Epoch(decisions[i].r2) > Epoch(decisions[i].loc))

\* C2 (as claimed): a restore copy that fails never ends the script before
\* the config is synthesized and the gateway is launched (stated for a mirror
\* whose marker is a valid timestamp).
C2_CopyFailureNeverStopsBoot ==
    (mirror.marker.kind = "ts" /\ bootFailed # {}) => bootPc # "aborted"

\* C9 (as claimed): whichever of mkdir and the six directory copies fail, once
\* restoreCmd has run every one of the six copies has been attempted.
C9_EveryCopyAttempted ==
    (rPc = "report" \/ rResult.success) => RestoreEntries \subseteq rAttempted

\* C10 (as claimed): the persona-file entry, in the startup script and in
\* restoreFromR2, copies only regular *.md files lying directly in the
\* mirror's workspace root (stated for a mirror whose marker is a valid
\* timestamp).
C10_PersonaEntryCopiesOnlyTopLevelMdFiles ==
    mirror.marker.kind = "ts" =>
        \A p \in bootLog \cup rLog :
            p[1] = "md" => IsTopLevelFile(p[2]) /\ MatchesMd(TopEntry(p[2]))

\* restoreFromR2 got past the credentials check and the mount.
RestoreStarted ==
    rResult.error \notin {"R2 storage is not configured", "Failed to mount R2 storage"}

\* Every file of the entries that ran without failing is on the local disk
\* with the mirror's content.
RestoredFromMirror ==
    \A e \in (RestoreEntries \cap rAttempted) \ rFailed :
        \A f \in EntryFiles(e, mirror.files) : local.files[Dest(f)] = mirror.files[f]

C12_NoValidMarkerNoRestore ==
    [][mirror.marker.kind # "ts" =>
          /\ local' = local
          /\ rAttempted' = {} /\ rLog' = {}
          /\ rPc' = "returned" => ~rResult'.success
          /\ (rPc' = "returned" /\ RestoreStarted' /\ rThrown' = "") =>
                 rResult'.error = "No valid backup found in R2"]_vars

\* C12 witness: a mirror full of files but with a marker that is not a date
\* was refused.
C12_Witness ==
    /\ rPc = "returned" /\ rResult.error = "No valid backup found in R2"
    /\ mirror.marker = BadMarker
    /\ PresentFiles(mirror.files) = MirrorFiles
    /\ PresentFiles(local.files) = {}

\* C13 (as claimed): in any sequence of boots, backups and local edits, no
\* restore block of the startup script replaces a local file by older content.
C13_BootNeverOverwritesNewerLocal ==
    [][(bootPc \in {"config", "skills", "workspace"}) =>
          (\A d \in LocalFiles : local'.files[d] >= local.files[d])]_vars

\* C14 (as claimed): restoreFromR2 never replaces a local file by an older
\* mirror copy.
C14_RestoreNeverOverwritesNewerLocal ==
    [][(rPc = "copy") =>
          (\A d \in LocalFiles : local'.files[d] >= local.files[d])]_vars

\* C14 (amended): restoreFromR2 compares nothing: after success=true every
\* mirror file of an entry that ran without failing is on the local disk with
\* the mirror's content, whatever the disk held.
C14_RestoreOverwritesWithMirror ==
    (rPc = "returned" /\ rResult.success) => RestoredFromMirror

\* C14 witness: a successful restore onto a disk with a newer marker and newer
\* files left mirror content in place of some of them.
C14_Witness ==
    /\ rPc = "returned" /\ rResult.success
    /\ Epoch(local.marker) > Epoch(mirror.marker)
    /\ \E f \in MirrorFiles :
          /\ Present(mirror.files, f)
          /\ local.files[Dest(f)] = mirror.files[f]
    /\ \E d \in LocalFiles : local.files[d] > MaxOf({mirror.files[f] : f \in MirrorFiles})

\* C15 (as claimed): with a backup job that writes the marker last, what
\* restoreFromR2 copies is one complete backup: all the files it copied are
\* of the same backup cycle, in every interleaving with backup cycles.
C15_RestoreCopiesOneBackup ==
    (rPc \in {"report", "returned"}) =>
        \A p, q \in rLog : local.files[Dest(p[2])] = local.files[Dest(q[2])]

\* C20 (as claimed): the lastSync of a success=true result passes the date
\* check and names the backup that was copied, also when the marker changes
\* or becomes unreadable between the check and the re-read.
C20_LastSyncNamesCopiedBackup ==
    (rPc = "returned" /\ rResult.success) =>
        /\ rResult.lastSync.kind = "ts"
        /\ \A p \in rLog : local.files[Dest(p[2])] = rResult.lastSync.wall

\* C16: no exception leaves restoreFromR2: a call that threw (or timed out)
\* in the marker check, the copy phase or the marker re-read has returned
\* success=false with an error string, and every returned result is either
\* success=true or success=false with an error string.
C16_NoExceptionEscapes ==
    /\ rPc # "escaped"
    /\ rThrown # "" => (rPc = "returned" /\ ~rResult.success /\ rResult.error # "")
    /\ rPc = "returned" => (rResult.success <=> rResult.error = "")

\* C16 witness: the marker re-read threw after files had been copied, and
\* the call returned "Restore error".
C16_Witness ==
    /\ rPc = "returned" /\ rThrown = "report"
    /\ rResult = Failure("Restore error")
    /\ rLog # {}

\* C17: for Telegram and for Discord, when the channel's token is set, its
\* DM policy variable is "open" and no explicit allow-list variable is given,
\* the config written has exactly ["*"] as that channel's allow-list, whatever
\* the config read held.
C17_OpenPolicyAllowsEveryone ==
    configWritten # NoChannels =>
        /\ (env.TELEGRAM_BOT_TOKEN # "" /\ env.TELEGRAM_DM_POLICY = "open"
                /\ env.TELEGRAM_DM_ALLOW_FROM = "") =>
               configWritten.telegram.allowFrom = List(<<"*">>)
        /\ (env.DISCORD_BOT_TOKEN # "" /\ env.DISCORD_DM_POLICY = "open") =>
               configWritten.discord.dmAllowFrom = List(<<"*">>)

\* C17 witness: both channels open, and the config read held other
\* allow-lists for both.
C17_Witness ==
    /\ configWritten # NoChannels
    /\ env.TELEGRAM_BOT_TOKEN # "" /\ env.TELEGRAM_DM_POLICY = "open"
    /\ env.TELEGRAM_DM_ALLOW_FROM = ""
    /\ env.DISCORD_BOT_TOKEN # "" /\ env.DISCORD_DM_POLICY = "open"
    /\ configRead.telegram.allowFrom = List(<<"111">>)
    /\ configRead.discord.dmAllowFrom = List(<<"111">>)
    /\ configWritten.telegram.allowFrom = List(<<"*">>)
    /\ configWritten.discord.dmAllowFrom = List(<<"*">>)

\* C18: the URL rewrite comes before the header rules, which match the
\* rewritten URL: a non-embedding request to the native Google host (an
\* absolute URL, headers that convert), with a relay base URL on the relay
\* host containing /google-ai-studio and a token configured, is forwarded by
\* that one call with the relay URL, without x-goog-api-key and with the
\* relay-auth header.
C18_RewriteThenHeaderRules ==
    (pass = 1 /\ req.input.kind # "null" /\ req.input.url.abs
        /\ req.input.url.host = GoogleHost /\ ~isEmbeddingRequest(req.input.url)
        /\ req.init.hkind # "invalid"
        /\ AI_GATEWAY_BASE_URL.set /\ AI_GATEWAY_BASE_URL.host = RelayHost
        /\ AI_GATEWAY_BASE_URL.route.prov = "google-ai-studio"
        /\ CF_AIG_AUTHORIZATION # "") =>
        /\ out.status = "fetched"
        /\ SentUrl(out.input).host = RelayHost
        /\ SentUrl(out.input).pre = <<gatewayBaseUrl>>
        /\ ~Has(ForwardedHeaders, "x-goog-api-key")
        /\ Has(ForwardedHeaders, "cf-aig-authorization")

\* C18 witness: a call to the native Google host carrying x-goog-api-key left
\* in one pass for the relay, without the key and with the configured token.
C18_Witness ==
    /\ pass = 1 /\ out.status = "fetched"
    /\ req.input.url.abs /\ req.input.url.host = GoogleHost
    /\ Has(AskedHeaders, "x-goog-api-key")
    /\ SentUrl(out.input).host = RelayHost
    /\ ~Has(ForwardedHeaders, "x-goog-api-key")
    /\ Get(ForwardedHeaders, "cf-aig-authorization") = <<CF_AIG_AUTHORIZATION>>
    /\ CF_AIG_AUTHORIZATION # ""

\* C19 (as claimed): within one boot the restore decision is the same for
\* every group: a boot that restored the config directory from a mirror with
\* a valid marker also decides to restore the skills and the workspace that
\* the mirror holds.
C19_OneDecisionPerBoot ==
    (mirror.marker.kind = "ts" /\ bootPc \in {"synth", "launch", "running"}
        /\ \E p \in bootLog : p[1] = "config") =>
        \A i \in DOMAIN decisions : decisions[i].restore

\* C21 (as claimed): after a boot that copied any group (config, skills or
\* workspace) from a mirror with a valid marker, the local marker equals the
\* mirror's marker.
C21_CopyLeavesLocalMarkerAtMirrors ==
    (mirror.marker.kind = "ts" /\ bootPc \in {"synth", "launch", "running"}
        /\ bootLog # {}) =>
        local.marker = mirror.marker

C23_BYOKStepKeepsOtherHeadersAndBody ==
    (Forwarded /\ out.via = "byok") =>
        /\ Get(ForwardedHeaders, "Content-Type") = Get(AskedHeaders, "Content-Type")
        /\ SentBody(out.input, out.init) = SentBody(req.input, req.init)

\* C24: when a channel's DM policy is not open and no allow-list variable is
\* set, the update writes back the allow-list it read (Telegram allowFrom,
\* Discord dm.allowFrom).
C24_ClosedPolicyKeepsStoredAllowList ==
    configWritten # NoChannels =>
        /\ (env.TELEGRAM_DM_POLICY # "open" /\ env.TELEGRAM_DM_ALLOW_FROM = "") =>
               configWritten.telegram.allowFrom = configRead.telegram.allowFrom
        /\ env.DISCORD_DM_POLICY # "open" =>
               configWritten.discord.dmAllowFrom = configRead.discord.dmAllowFrom

\* C24 witness: the previous boot wrote both channels under policy open, this
\* boot runs with both policies set to pairing and no allow-list variable,
\* and the config it wrote still allows everyone on both channels.
C24_Witness ==
    /\ policiesBefore = [telegram |-> "open", discord |-> "open"]
    /\ env.TELEGRAM_BOT_TOKEN # "" /\ env.DISCORD_BOT_TOKEN # ""
    /\ env.TELEGRAM_DM_POLICY = "pairing" /\ env.TELEGRAM_DM_ALLOW_FROM = ""
    /\ env.DISCORD_DM_POLICY = "pairing"
    /\ configRead.telegram.allowFrom = List(<<"*">>)
    /\ configRead.discord.dmAllowFrom = List(<<"*">>)
    /\ configWritten.telegram.dmPolicy = "pairing"
    /\ configWritten.discord.dmPolicy = "pairing"
    /\ configWritten.telegram.allowFrom = List(<<"*">>)
    /\ configWritten.discord.dmAllowFrom = List(<<"*">>)

====
